---- MODULE Spec2Model ----
(***************************************************************************)
(* Model of unvenv's self-update module (src/src/update.rs): run_update,   *)
(* get_latest_version, perform_update and get_platform_string; and of the  *)
(* scan command (src/src/main.rs): scan_for_venvs_in_dir.                  *)
(*                                                                         *)
(* Strings whose characters matter (versions, tags, the prompt response,   *)
(* digests, checksum text) are sequences of one-character strings.         *)
(* Output lines are records [text, args]: the fixed part of the format     *)
(* string and the interpolated values, in order.                           *)
(***************************************************************************)
EXTENDS Integers, Sequences, FiniteSets, TLC

VARIABLES
    version,        \* argument: None or the explicit version string
    force,          \* argument: the force flag
    install_dir,    \* argument: "none" or the state of the supplied directory
    os,             \* std::env::consts::OS of the build
    arch,           \* std::env::consts::ARCH of the build
    exe_dir,        \* state of the directory of the running executable
    pc,             \* position of the run
    exit_code,      \* value returned by run_update (NoExit while running)
    failed_at,      \* position at which the run failed ("" when it did not)
    target_version, \* local of run_update
    index_response, \* how the release-index query ended ("" until made)
    tag_name,       \* tag_name received by get_latest_version (None if none)
    install_path,   \* local of run_update (None until resolved)
    response,       \* result of the read_line on standard input
    stdin_reads,    \* number of lines read from standard input
    archive_status, \* status of the archive response (0 until received)
    bytes,          \* body of the archive response
    checksum_status,\* status of the checksum response (0 until received)
    expected_checksum, \* body text of the checksum response
    temp_dir,       \* the scratch directory: [exists, files]
    install_file,   \* the file at the install target: [exists, data, mode]
    old_file,       \* the file at the install target when the run began
    requests,       \* network requests issued, in order
    stdout,         \* lines printed to standard output, in order
    stderr,         \* lines printed to standard error, in order
    scan,           \* the state of scan_for_venvs_in_dir (src/src/main.rs)
    copy            \* the install target under concurrent copies and reads

vars == <<version, force, install_dir, os, arch, exe_dir, pc, exit_code,
          failed_at, target_version, index_response, tag_name, install_path,
          response, stdin_reads, archive_status, bytes, checksum_status,
          expected_checksum, temp_dir, install_file, old_file, requests,
          stdout, stderr, scan, copy>>

----------------------------------------------------------------------------
(* Values *)

None == <<"<none>">>
NoExit == 0 - 1

\* The largest number of pieces a release tag is assembled from.
MaxPieces == 3

\* env!("CARGO_PKG_VERSION"): the version of the running binary.
current_version == <<"1", ".", "0", ".", "0">>

ToolPrefix == <<"u", "n", "v", "e", "n", "v", "-", "v">>

TagPieces == { ToolPrefix, <<"v">>, current_version }

RECURSIVE TagsOf(_)
TagsOf(n) ==
    IF n = 0 THEN { <<>> }
    ELSE LET shorter == TagsOf(n - 1)
         IN  shorter \cup { t \o p : t \in shorter, p \in TagPieces }

\* The tag_name strings the release index may answer with.
Tags == TagsOf(MaxPieces)

\* Explicit version strings given on the command line.
Versions == { current_version,
              <<"0", ".", "9", ".", "0">>,
              <<"v", "1", ".", "0", ".", "0">> }

OSes == { "macos", "linux", "windows", "freebsd" }
Arches == { "x86_64", "aarch64", "arm" }
DirStates == { "writable", "readonly", "missing" }

----------------------------------------------------------------------------
(* String helpers of the standard library *)

StartsWith(s, pat) ==
    /\ Len(s) >= Len(pat)
    /\ SubSeq(s, 1, Len(pat)) = pat

\* str::trim_start_matches with a non-empty pattern: the prefix is removed
\* repeatedly, as long as the string starts with it.
RECURSIVE trim_start_matches(_, _)
trim_start_matches(s, pat) ==
    IF StartsWith(s, pat)
    THEN trim_start_matches(SubSeq(s, Len(pat) + 1, Len(s)), pat)
    ELSE s

IsWhitespace(c) == c \in { " ", "\t", "\n", "\r" }

RECURSIVE trim_start(_)
trim_start(s) ==
    IF Len(s) > 0 /\ IsWhitespace(Head(s)) THEN trim_start(Tail(s)) ELSE s

RECURSIVE trim_end(_)
trim_end(s) ==
    IF Len(s) > 0 /\ IsWhitespace(s[Len(s)])
    THEN trim_end(SubSeq(s, 1, Len(s) - 1))
    ELSE s

trim(s) == trim_end(trim_start(s))

LowerChar(c) ==
    CASE c = "Y" -> "y"
      [] c = "E" -> "e"
      [] c = "S" -> "s"
      [] c = "N" -> "n"
      [] c = "O" -> "o"
      [] c = "A" -> "a"
      [] c = "B" -> "b"
      [] c = "C" -> "c"
      [] c = "D" -> "d"
      [] c = "F" -> "f"
      [] OTHER -> c

to_lowercase(s) == [i \in 1..Len(s) |-> LowerChar(s[i])]

\* str::split_whitespace().next(): the first maximal run of non-whitespace
\* characters, or None when there is none.
RECURSIVE TakeToken(_)
TakeToken(s) ==
    IF Len(s) = 0 \/ IsWhitespace(Head(s)) THEN <<>>
    ELSE <<Head(s)>> \o TakeToken(Tail(s))

FirstToken(s) ==
    LET t == TakeToken(trim_start(s))
    IN  IF Len(t) = 0 THEN None ELSE t

Msg(text, args) == [text |-> text, args |-> args]

----------------------------------------------------------------------------
(* get_latest_version: the normalisation of the tag *)

normalize(tag) == trim_start_matches(trim_start_matches(tag, ToolPrefix), <<"v">>)

----------------------------------------------------------------------------
(* get_platform_string *)

\* get_platform_string without the arm of line 231.
get_platform_string_no_linux_aarch64(o, a) ==
    CASE o = "macos" /\ a = "x86_64" -> "x86_64-apple-darwin"
      [] o = "macos" /\ a = "aarch64" -> "aarch64-apple-darwin"
      [] o = "linux" /\ a = "x86_64" -> "x86_64-unknown-linux-gnu"
      [] o = "windows" /\ a = "x86_64" -> "x86_64-pc-windows-msvc"
      [] OTHER -> "unknown"

get_platform_string(o, a) ==
    CASE o = "macos" /\ a = "x86_64" -> "x86_64-apple-darwin"
      [] o = "macos" /\ a = "aarch64" -> "aarch64-apple-darwin"
      [] o = "linux" /\ a = "x86_64" -> "x86_64-unknown-linux-gnu"
      [] o = "linux" /\ a = "aarch64" -> "aarch64-unknown-linux-gnu"
      [] o = "windows" /\ a = "x86_64" -> "x86_64-pc-windows-msvc"
      [] OTHER -> "unknown"

----------------------------------------------------------------------------
(* The environment: what the network, the terminal and the file system may  *)
(* answer                                                                   *)

\* Outcomes of the release-index query of get_latest_version.
IndexResults ==
    { [kind |-> k, tag |-> <<>>] :
        k \in { "build_err", "send_err", "json_err", "no_tag" } }
    \cup { [kind |-> "tag", tag |-> t] : t \in Tags }

\* Lines read_line may deliver: a line with its newline, a last line without
\* one, nothing at end of input, or an error (input that is not UTF-8).
Lines ==
    { <<>>,
      <<"\n">>,
      <<"y", "\n">>,
      <<"Y", "\n">>,
      <<"y">>,
      <<"y", "e", "s", "\n">>,
      <<"Y", "E", "S", "\n">>,
      <<"Y", "e", "s">>,
      <<" ", "y", "e", "s", " ", "\r", "\n">>,
      <<"\t", "Y", " ", "\n">>,
      <<"n", "\n">>,
      <<"N", "o", "\n">>,
      <<"y", "e", "\n">>,
      <<"y", "e", "s", "s", "\n">>,
      <<"y", " ", "e", "s", "\n">>,
      <<"o", "y", "\n">> }

ReadResults ==
    { [ok |-> TRUE, line |-> l] : l \in Lines }
    \cup { [ok |-> FALSE, line |-> <<>>] }

NoResponse == [ok |-> TRUE, line |-> None]

Statuses == { 200, 404, 500 }

\* is_success taken for "not a server error".
is_success_not_server_error(status) == status >= 200 /\ status < 500

is_success(status) == status >= 200 /\ status < 300

\* Archive bodies.  The gzip and tar formats are reduced to this: a body is
\* a gzip stream iff it starts with the gzip magic bytes 31, 139, and every
\* byte after them stands for one tar entry.
GzipMagic == <<31, 139>>

Bodies ==
    { GzipMagic \o <<1>>,        \* holds the file unvenv
      GzipMagic \o <<2>>,        \* holds another file only
      GzipMagic \o <<2, 1>>,     \* holds both
      GzipMagic \o <<3>>,        \* holds a directory named unvenv
      <<80, 75>> }               \* not a gzip stream

TarEntry(b) ==
    CASE b = 1 -> [name |-> "unvenv", dir |-> FALSE,
                   data |-> <<127, 69, 76, 70>>, mode |-> 420]
      [] b = 3 -> [name |-> "unvenv", dir |-> TRUE, data |-> <<>>, mode |-> 493]
      [] OTHER -> [name |-> "README.md", dir |-> FALSE,
                   data |-> <<35>>, mode |-> 420]

\* flate2::read::GzDecoder + tar::Archive::unpack on the body.
unpack(body) ==
    IF StartsWith(body, GzipMagic)
    THEN [ok |-> TRUE,
          files |-> { TarEntry(body[i]) : i \in (Len(GzipMagic) + 1)..Len(body) }]
    ELSE [ok |-> FALSE, files |-> {}]

\* Sha256 over the body.  The 256-bit digest is reduced to one byte.
RECURSIVE Sha256(_)
Sha256(body) ==
    IF Len(body) = 0 THEN 227
    ELSE (Sha256(SubSeq(body, 1, Len(body) - 1)) * 31 + body[Len(body)] + 7) % 256

HexDigits == <<"0", "1", "2", "3", "4", "5", "6", "7",
               "8", "9", "a", "b", "c", "d", "e", "f">>

\* hex::encode of the digest: lower-case hexadecimal, two digits a byte.
hex_encode(byte) == << HexDigits[(byte \div 16) + 1], HexDigits[(byte % 16) + 1] >>

UpperChar(c) ==
    CASE c = "a" -> "A"
      [] c = "b" -> "B"
      [] c = "c" -> "C"
      [] c = "d" -> "D"
      [] c = "e" -> "E"
      [] c = "f" -> "F"
      [] OTHER -> c

to_uppercase(s) == [i \in 1..Len(s) |-> UpperChar(s[i])]

Digests == { hex_encode(Sha256(b)) : b \in Bodies }

\* Texts the checksum companion may hold.
ChecksumTexts ==
    { d \o <<"\n">> : d \in Digests }
    \cup { d \o <<" ", " ">> \o ToolPrefix \o <<"\n">> : d \in Digests }
    \cup { to_uppercase(d) : d \in Digests }
    \cup { <<" ">> \o d : d \in Digests }
    \cup { <<>>, <<" ", "\n">> }

NoTempDir == [exists |-> FALSE, files |-> {}]

OldBinary == [exists |-> TRUE, data |-> <<1, 0, 0>>, mode |-> 493]
NoFile == [exists |-> FALSE, data |-> <<>>, mode |-> 0]

\* The scan command is not running.
NoScan == [pc |-> "idle"]

\* One process only: the copy is the single step ReplaceBinary.
NoCopy == [pc |-> "idle"]

----------------------------------------------------------------------------
(* The state after the call of run_update *)

Init ==
    /\ version \in { None } \cup Versions
    /\ force \in BOOLEAN
    /\ install_dir \in { "none" } \cup DirStates
    /\ os \in OSes
    /\ arch \in Arches
    /\ exe_dir \in IF install_dir = "none"
                    THEN { "unknown", "writable", "readonly" }
                    ELSE { "writable" }    \* current_exe is not called
    /\ pc = "ResolveVersion"
    /\ exit_code = NoExit
    /\ failed_at = ""
    /\ target_version = None
    /\ index_response = ""
    /\ tag_name = None
    /\ install_path = None
    /\ response = NoResponse
    /\ stdin_reads = 0
    /\ archive_status = 0
    /\ bytes = <<>>
    /\ checksum_status = 0
    /\ expected_checksum = None
    /\ temp_dir = NoTempDir
    /\ install_file \in
         IF install_dir = "none" THEN { OldBinary }
         ELSE IF install_dir = "missing" THEN { NoFile }
         ELSE { OldBinary, NoFile }
    /\ old_file = install_file
    /\ requests = <<>>
    /\ stdout = <<>>
    /\ stderr = <<>>
    /\ scan = NoScan
    /\ copy = NoCopy

Terminal == { "UpToDate", "Cancelled", "Done", "Failed", "Panicked" }

\* What no step of run_update changes: its arguments, the build, the
\* environment it starts in, the state of the scan command and that of the
\* concurrent copies.
inputs == <<version, force, install_dir, os, arch, exe_dir, old_file, scan,
            copy>>

\* An error return that yields 0.
ReturnFailed_zero(line) ==
    /\ stderr' = Append(stderr, line)
    /\ exit_code' = 0
    /\ failed_at' = pc
    /\ pc' = "Failed"

\* A return of run_update with an error on standard error.
ReturnFailed(line) ==
    /\ stderr' = Append(stderr, line)
    /\ exit_code' = 1
    /\ failed_at' = pc
    /\ pc' = "Failed"

\* Err(e) out of perform_update with a failed request for the checksum
\* companion taken as "no checksum": the error is printed and the run goes
\* on to the next stage.
UpdateFailed_lenient(e) ==
    IF pc = "DownloadChecksum"
    THEN /\ stderr' = Append(stderr, Msg("Update failed: ", <<e>>))
         /\ pc' = "Verifying"
         /\ UNCHANGED <<exit_code, failed_at, temp_dir>>
    ELSE /\ ReturnFailed(Msg("Update failed: ", <<e>>))
         /\ temp_dir' = NoTempDir

\* Err(e) out of perform_update with the scratch directory kept (as with
\* TempDir::into_path, or a removal done on the success path only).
UpdateFailed_keeps_dir(e) ==
    /\ ReturnFailed(Msg("Update failed: ", <<e>>))
    /\ UNCHANGED temp_dir

\* Err(e) out of perform_update (lines 75-78): the scratch directory, if
\* there is one, is dropped on the way out.
UpdateFailed(e) ==
    /\ ReturnFailed(Msg("Update failed: ", <<e>>))
    /\ temp_dir' = NoTempDir

----------------------------------------------------------------------------
(* run_update *)

\* get_latest_version with unwrap_or_default in place of line 99.
get_latest_version_default_tag(r) ==
    CASE r.kind = "build_err" -> [ok |-> FALSE, sent |-> FALSE, value |-> <<"builder error">>]
      [] r.kind = "send_err" -> [ok |-> FALSE, sent |-> TRUE, value |-> <<"error sending request">>]
      [] r.kind = "json_err" -> [ok |-> FALSE, sent |-> TRUE, value |-> <<"error decoding response body">>]
      [] OTHER -> [ok |-> TRUE, sent |-> TRUE, value |-> normalize(r.tag)]

\* get_latest_version, as called by run_update: one GET to the release
\* index, and the tag of the answer with its prefixes removed.
get_latest_version(r) ==
    CASE r.kind = "build_err" -> [ok |-> FALSE, sent |-> FALSE, value |-> <<"builder error">>]
      [] r.kind = "send_err" -> [ok |-> FALSE, sent |-> TRUE, value |-> <<"error sending request">>]
      [] r.kind = "json_err" -> [ok |-> FALSE, sent |-> TRUE, value |-> <<"error decoding response body">>]
      [] r.kind = "no_tag" -> [ok |-> FALSE, sent |-> TRUE, value |-> <<"No tag_name in response">>]
      [] OTHER -> [ok |-> TRUE, sent |-> TRUE, value |-> normalize(r.tag)]

IndexRequest == [endpoint |-> "release_index", url |-> <<"releases/latest">>]

\* Line 17 with the tag prefixes removed from the explicit version too.
to_string_normalized(v) == normalize(v)

\* Line 17: v.to_string() of the explicit version.
to_string(v) == v

\* Lines 13-26: the target version.
ResolveVersion ==
    /\ pc = "ResolveVersion"
    /\ stdout' = Append(stdout, Msg("Checking for updates...", <<>>))
    /\ IF version # None
       THEN /\ target_version' = to_string(version)
            /\ pc' = "VersionCheck"
            /\ UNCHANGED <<index_response, tag_name, requests, stderr,
                           exit_code, failed_at>>
       ELSE \E r \in IndexResults :
            LET latest == get_latest_version(r)
            IN  /\ requests' = IF latest.sent
                               THEN Append(requests, IndexRequest)
                               ELSE requests
                /\ index_response' = r.kind
                /\ tag_name' = IF r.kind = "tag" THEN r.tag ELSE None
                /\ IF latest.ok
                   THEN /\ target_version' = latest.value
                        /\ pc' = "VersionCheck"
                        /\ UNCHANGED <<stderr, exit_code, failed_at>>
                   ELSE /\ ReturnFailed(Msg("Failed to check for updates: ",
                                            <<latest.value>>))
                        /\ UNCHANGED target_version
    /\ UNCHANGED archive_status
    /\ UNCHANGED <<inputs, install_path, response, stdin_reads, bytes,
                   checksum_status, expected_checksum, temp_dir, install_file>>

\* The condition of line 29 with the tag prefixes of the target removed
\* before the comparison.
up_to_date_normalized(target, forced) ==
    normalize(target) = current_version /\ ~forced

\* The condition of line 29 with the force flag inverted.
up_to_date_forced(target, forced) == target = current_version /\ forced

\* The condition of line 29 without the force flag.
up_to_date_unforced(target, forced) == target = current_version

\* The condition of line 29.
up_to_date(target, forced) == target = current_version /\ ~forced

\* Lines 28-34: the up-to-date check.
VersionCheck ==
    /\ pc = "VersionCheck"
    /\ IF up_to_date(target_version, force)
       THEN /\ stdout' = Append(stdout, Msg("Already running latest version (v{})",
                                            <<current_version>>))
            /\ exit_code' = 2
            /\ pc' = "UpToDate"
       ELSE /\ stdout' = Append(stdout, Msg("Update available: v{} (current: v{})",
                                            <<target_version, current_version>>))
            /\ pc' = "Available"
            /\ UNCHANGED exit_code
    /\ tag_name' = None    \* the local of get_latest_version is gone
    /\ UNCHANGED <<index_response, archive_status>>
    /\ UNCHANGED <<inputs, failed_at, target_version, install_path,
                   response, stdin_reads, bytes, checksum_status,
                   expected_checksum, temp_dir, install_file, requests, stderr>>

\* Lines 36-50: the install location.
ResolveInstallPath ==
    /\ pc = "Available"
    /\ IF install_dir # "none"
       THEN /\ install_path' = <<"install_dir", "unvenv">>
            /\ stdout' = Append(stdout, Msg("Install location: ", <<install_path'>>))
            /\ pc' = "Confirm"
            /\ UNCHANGED <<stderr, exit_code, failed_at>>
       ELSE IF exe_dir # "unknown"
            THEN /\ install_path' = <<"current_exe">>
                 /\ stdout' = Append(stdout, Msg("Install location: ", <<install_path'>>))
                 /\ pc' = "Confirm"
                 /\ UNCHANGED <<stderr, exit_code, failed_at>>
            ELSE /\ ReturnFailed(Msg("Failed to determine binary location: ",
                                     <<"current_exe error">>))
                 /\ UNCHANGED <<install_path, stdout>>
    /\ UNCHANGED <<index_response, archive_status>>
    /\ UNCHANGED <<inputs, target_version, tag_name, response, stdin_reads,
                   bytes, checksum_status, expected_checksum, temp_dir,
                   install_file, requests>>

\* The match of line 61 with the empty answer taken for a yes ([Y/n]).
affirmative_default_yes(line) ==
    to_lowercase(trim(line)) \in { <<>>, <<"y">>, <<"y", "e", "s">> }

\* matches!(response.trim().to_lowercase().as_str(), "y" | "yes")
affirmative(line) ==
    to_lowercase(trim(line)) \in { <<"y">>, <<"y", "e", "s">> }

Prompt == Msg("Continue with update? [y/N]: ", <<>>)

\* Lines 52-65: the confirmation.
Confirm ==
    /\ pc = "Confirm"
    /\ IF force
       THEN /\ pc' = "Downloading"
            /\ UNCHANGED <<response, stdin_reads, stdout, exit_code>>
       ELSE \E r \in ReadResults :
            /\ response' = r
            /\ stdin_reads' = stdin_reads + 1
            /\ IF ~r.ok
               THEN \* read_line(..).unwrap() on Err
                    /\ pc' = "Panicked"
                    /\ stdout' = Append(stdout, Prompt)
                    /\ UNCHANGED exit_code
               ELSE IF affirmative(r.line)
                    THEN /\ pc' = "Downloading"
                         /\ stdout' = Append(stdout, Prompt)
                         /\ UNCHANGED exit_code
                    ELSE /\ pc' = "Cancelled"
                         /\ stdout' = stdout \o << Prompt, Msg("Update cancelled.", <<>>) >>
                         /\ exit_code' = 0
    /\ UNCHANGED <<index_response, archive_status>>
    /\ UNCHANGED <<inputs, failed_at, target_version, tag_name, install_path,
                   bytes, checksum_status, expected_checksum, temp_dir,
                   install_file, requests, stderr>>

----------------------------------------------------------------------------
(* perform_update *)

\* cfg!(target_os = "windows") of a build that is never a Windows one.
is_windows_never == FALSE

is_windows == os = "windows"    \* cfg!(target_os = "windows")
is_unix == os # "windows"       \* cfg(unix), for the targets of OSes

archive_ext == IF is_windows THEN "zip" ELSE "tar.gz"

filename == <<"unvenv-", get_platform_string(os, arch), ".", archive_ext>>

download_url ==
    <<"https://github.com/workhelix/unvenv/releases/download/unvenv-v">>
    \o target_version \o <<"/">> \o filename

checksum_url == download_url \o <<".sha256">>

binary_name == IF is_windows THEN "unvenv.exe" ELSE "unvenv"

ArchiveRequest == [endpoint |-> "archive", url |-> download_url]
ChecksumRequest == [endpoint |-> "checksum", url |-> checksum_url]

\* Outcomes of the archive GET of lines 124-139.
ArchiveResults ==
    { [kind |-> k, status |-> 0, body |-> <<>>] : k \in { "build_err", "send_err" } }
    \cup { [kind |-> "status", status |-> st, body |-> <<>>] :
             st \in { x \in Statuses : ~is_success(x) } }
    \cup { [kind |-> "body_err", status |-> st, body |-> <<>>] :
             st \in { x \in Statuses : is_success(x) } }
    \cup { [kind |-> "body", status |-> st, body |-> b] :
             st \in { x \in Statuses : is_success(x) }, b \in Bodies }

\* Lines 108-139: the archive is downloaded.
Downloading ==
    /\ pc = "Downloading"
    /\ stdout' = Append(stdout, Msg("Downloading {}...", <<filename>>))
    /\ \E r \in ArchiveResults :
        /\ requests' = IF r.kind = "build_err" THEN requests
                       ELSE Append(requests, ArchiveRequest)
        /\ archive_status' = r.status
        /\ CASE r.kind = "build_err" ->
                  /\ UpdateFailed(Msg("builder error", <<>>))
                  /\ UNCHANGED bytes
             [] r.kind = "send_err" ->
                  /\ UpdateFailed(Msg("error sending request", <<>>))
                  /\ UNCHANGED bytes
             [] r.kind = "status" ->
                  /\ UpdateFailed(Msg("Download failed: HTTP ", <<r.status>>))
                  /\ UNCHANGED bytes
             [] r.kind = "body_err" ->
                  /\ UpdateFailed(Msg("error decoding response body", <<>>))
                  /\ UNCHANGED bytes
             [] OTHER ->
                  /\ bytes' = r.body
                  /\ pc' = "DownloadChecksum"
                  /\ UNCHANGED <<stderr, exit_code, failed_at, temp_dir>>
    /\ response' = NoResponse    \* the block of lines 53-65 is left
    /\ UNCHANGED index_response
    /\ UNCHANGED <<inputs, target_version, tag_name, install_path,
                   stdin_reads, checksum_status, expected_checksum,
                   install_file>>

\* Lines 141-146: the checksum companion is requested.
DownloadChecksum ==
    /\ pc = "DownloadChecksum"
    /\ requests' = Append(requests, ChecksumRequest)
    /\ \/ /\ UpdateFailed(Msg("error sending request", <<>>))
          /\ UNCHANGED checksum_status
       \/ \E st \in Statuses :
          /\ checksum_status' = st
          /\ pc' = "Verifying"
          /\ UNCHANGED <<stderr, exit_code, failed_at, temp_dir>>
    /\ UNCHANGED <<index_response, archive_status>>
    /\ UNCHANGED <<inputs, target_version, tag_name, install_path, response,
                   stdin_reads, bytes, expected_checksum, install_file, stdout>>

\* Lines 151-154 with unwrap_or_default in place of ok_or_else: a text
\* without a token gives the empty digest.
expected_hash_or_default(text) ==
    IF FirstToken(text) = None THEN <<>> ELSE FirstToken(text)

\* Lines 151-154.
expected_hash(text) == FirstToken(text)

\* Lines 157-159.
actual_hash(body) == hex_encode(Sha256(body))

\* The condition of line 161, comparing without regard to case.
hash_mismatch_nocase(actual, expected) ==
    to_lowercase(actual) # to_lowercase(expected)

\* The condition of line 161.
hash_mismatch(actual, expected) == actual # expected

Warning == Msg("Checksum file not available, skipping verification", <<>>)

\* Lines 148-170: the digest is compared, or the check is skipped.
Verifying ==
    /\ pc = "Verifying"
    /\ IF is_success(checksum_status)
       THEN \/ \* checksum_response.text() fails
               /\ stdout' = Append(stdout, Msg("Verifying checksum...", <<>>))
               /\ UpdateFailed(Msg("error decoding response body", <<>>))
               /\ UNCHANGED expected_checksum
            \/ \E text \in ChecksumTexts :
               /\ expected_checksum' = text
               /\ IF expected_hash(text) = None
                  THEN /\ stdout' = Append(stdout, Msg("Verifying checksum...", <<>>))
                       /\ UpdateFailed(Msg("Invalid checksum format", <<>>))
                  ELSE IF hash_mismatch(actual_hash(bytes), expected_hash(text))
                  THEN /\ stdout' = Append(stdout, Msg("Verifying checksum...", <<>>))
                       /\ UpdateFailed(Msg("Checksum verification failed!\nExpected: {}\nActual:   {}",
                                           <<expected_hash(text), actual_hash(bytes)>>))
                  ELSE /\ stdout' = stdout \o << Msg("Verifying checksum...", <<>>),
                                                 Msg("Checksum verified", <<>>) >>
                       /\ pc' = "CreateTempDir"
                       /\ UNCHANGED <<stderr, exit_code, failed_at, temp_dir>>
       ELSE /\ stderr' = Append(stderr, Warning)
            /\ pc' = "CreateTempDir"
            /\ UNCHANGED <<stdout, exit_code, failed_at, temp_dir, expected_checksum>>
    /\ UNCHANGED <<index_response, archive_status>>
    /\ UNCHANGED <<inputs, target_version, tag_name, install_path, response,
                   stdin_reads, bytes, checksum_status, install_file, requests>>

\* Lines 172-176: the scratch directory.
CreateTempDir ==
    /\ pc = "CreateTempDir"
    /\ stdout' = Append(stdout, Msg("Installing...", <<>>))
    /\ \/ /\ temp_dir' = [exists |-> TRUE, files |-> {}]
          /\ pc' = "Extracting"
          /\ UNCHANGED <<stderr, exit_code, failed_at>>
       \/ UpdateFailed(Msg("tempdir error", <<>>))
    /\ expected_checksum' = None    \* the block of lines 148-168 is left
    /\ UNCHANGED <<index_response, archive_status>>
    /\ UNCHANGED <<inputs, target_version, tag_name, install_path, response,
                   stdin_reads, bytes, checksum_status, install_file, requests>>

\* Lines 178-186: the archive is unpacked into the scratch directory.
Extracting ==
    /\ pc = "Extracting"
    /\ IF is_windows
       THEN UpdateFailed(Msg("Windows update not yet implemented", <<>>))
       ELSE IF ~unpack(bytes).ok
       THEN UpdateFailed(Msg("invalid gzip header", <<>>))
       ELSE \/ /\ temp_dir' = [temp_dir EXCEPT !.files = unpack(bytes).files]
               /\ pc' = "FindBinary"
               /\ UNCHANGED <<stderr, exit_code, failed_at>>
            \/ \* an I/O error while the entries are written
               UpdateFailed(Msg("failed to unpack", <<>>))
    /\ UNCHANGED <<index_response, archive_status>>
    /\ UNCHANGED <<inputs, target_version, tag_name, install_path, response,
                   stdin_reads, bytes, checksum_status, expected_checksum,
                   install_file, requests, stdout>>

\* temp_dir.path().join(binary_name).exists(): true of a directory of that
\* name as well as of a file.
temp_binary_exists == \E f \in temp_dir.files : f.name = binary_name

temp_binary == CHOOSE f \in temp_dir.files : f.name = binary_name

\* Lines 188-198: the binary is looked up in the scratch directory.
FindBinary ==
    /\ pc = "FindBinary"
    /\ IF ~temp_binary_exists
       THEN UpdateFailed(Msg("Binary not found in archive: ", <<binary_name>>))
       ELSE /\ pc' = "MakeExecutable"
            /\ UNCHANGED <<stderr, exit_code, failed_at, temp_dir>>
    /\ UNCHANGED <<index_response, archive_status>>
    /\ UNCHANGED <<inputs, target_version, tag_name, install_path, response,
                   stdin_reads, bytes, checksum_status, expected_checksum,
                   install_file, requests, stdout>>

\* 0o644: the mode without the execute bits.
ExecutableMode_no_exec == 493 - 73

ExecutableMode == 493    \* 0o755

\* The copy done before the permission change, and the mode then set on
\* the install target instead of the extracted file.
MakeExecutable_on_target ==
    /\ pc = "MakeExecutable"
    /\ install_file' = [exists |-> TRUE, data |-> temp_binary.data,
                        mode |-> ExecutableMode]
    /\ \/ /\ pc' = "Installing"
          /\ UNCHANGED <<stderr, exit_code, failed_at, temp_dir>>
       \/ UpdateFailed(Msg("metadata or set_permissions error", <<>>))
    /\ UNCHANGED <<index_response, archive_status>>
    /\ UNCHANGED <<version, force, install_dir, os, arch, exe_dir, old_file,
                   scan, copy, target_version, tag_name, install_path,
                   response, stdin_reads, bytes, checksum_status,
                   expected_checksum, requests, stdout>>

\* Lines 200-209: the permission bits of the extracted file.
MakeExecutable ==
    /\ pc = "MakeExecutable"
    /\ IF is_unix
       THEN \/ /\ temp_dir' = [temp_dir EXCEPT !.files =
                     { IF f.name = binary_name
                       THEN [f EXCEPT !.mode = ExecutableMode]
                       ELSE f : f \in temp_dir.files }]
               /\ pc' = "Installing"
               /\ UNCHANGED <<stderr, exit_code, failed_at>>
            \/ \* std::fs::metadata or std::fs::set_permissions fails
               UpdateFailed(Msg("metadata or set_permissions error", <<>>))
       ELSE /\ pc' = "Installing"
            /\ UNCHANGED <<stderr, exit_code, failed_at, temp_dir>>
    /\ UNCHANGED <<index_response, archive_status>>
    /\ UNCHANGED <<inputs, target_version, tag_name, install_path, response,
                   stdin_reads, bytes, checksum_status, expected_checksum,
                   install_file, requests, stdout>>

\* The directory the install target lies in.
target_dir == IF install_dir # "none" THEN install_dir ELSE exe_dir

\* std::fs::copy as if the missing directory were created first.
CopyResults_creates_dir ==
    CASE temp_binary.dir -> { "InvalidInput" }
      [] target_dir = "readonly" -> { "PermissionDenied" }
      [] OTHER -> { "Ok", "Other" }

\* What std::fs::copy to the install target may answer.  The source is
\* opened first, and a source that is not a regular file is refused before
\* the target is touched.
CopyResults ==
    CASE temp_binary.dir -> { "InvalidInput" }
      [] target_dir = "missing" -> { "NotFound" }
      [] target_dir = "readonly" -> { "PermissionDenied" }
      [] OTHER -> { "Ok", "Other" }

\* The closure of lines 212-221 without the test of the error kind.
copy_error_always_hint(kind) ==
    Msg("Permission denied. Try running with sudo or use --install-dir to specify a writable location:\n  ",
        <<kind>>)

\* The closure of lines 212-221.
copy_error(kind) ==
    IF kind = "PermissionDenied"
    THEN Msg("Permission denied. Try running with sudo or use --install-dir to specify a writable location:\n  ",
             <<kind>>)
    ELSE Msg("io error", <<kind>>)

\* Lines 211-223 and 68-74: the binary is copied over the install target.
ReplaceBinary ==
    /\ pc = "Installing"
    /\ \E kind \in CopyResults :
        IF kind = "Ok"
        THEN /\ install_file' = [exists |-> TRUE, data |-> temp_binary.data,
                                 mode |-> temp_binary.mode]
             /\ temp_dir' = NoTempDir
             /\ stdout' = stdout \o
                   << Msg("Successfully updated to v", <<target_version>>),
                      Msg("Run 'unvenv --version' to verify the installation.", <<>>) >>
             /\ exit_code' = 0
             /\ pc' = "Done"
             /\ UNCHANGED <<stderr, failed_at>>
        ELSE /\ UpdateFailed(copy_error(kind))
             /\ UNCHANGED stdout
             /\ IF kind = "Other"
                THEN \* the copy may fail before or after the target is opened
                     \E n \in 0..Len(temp_binary.data) - 1 :
                        install_file' \in
                          { install_file,
                            [exists |-> TRUE,
                             data |-> SubSeq(temp_binary.data, 1, n),
                             mode |-> IF install_file.exists
                                      THEN install_file.mode
                                      ELSE 420] }
                ELSE UNCHANGED install_file
    /\ UNCHANGED <<index_response, archive_status>>
    /\ UNCHANGED <<inputs, target_version, tag_name, install_path, response,
                   stdin_reads, bytes, checksum_status, expected_checksum,
                   requests>>

----------------------------------------------------------------------------
(* The run *)

Next ==
    \/ ResolveVersion
    \/ VersionCheck
    \/ ResolveInstallPath
    \/ Confirm
    \/ Downloading
    \/ DownloadChecksum
    \/ Verifying
    \/ CreateTempDir
    \/ Extracting
    \/ FindBinary
    \/ MakeExecutable
    \/ ReplaceBinary

Spec == Init /\ [][Next]_vars

----------------------------------------------------------------------------
(* What a run has shown and done *)

Printed(log, text) == \E i \in 1..Len(log) : log[i].text = text

Issued(endpoint) == \E i \in 1..Len(requests) : requests[i].endpoint = endpoint

ArtifactRequested == Issued("archive") \/ Issued("checksum")

Returned == exit_code # NoExit

\* perform_update was entered: line 121 is its first output.
DownloadStageReached == Printed(stdout, "Downloading {}...")

----------------------------------------------------------------------------
(* Exit codes *)

FailureStages ==
    { "ResolveVersion", "Available", "Downloading", "DownloadChecksum",
      "Verifying", "CreateTempDir", "Extracting", "FindBinary",
      "MakeExecutable", "Installing" }

ErrorReported ==
    \/ Printed(stderr, "Update failed: ")
    \/ Printed(stderr, "Failed to check for updates: ")
    \/ Printed(stderr, "Failed to determine binary location: ")

----------------------------------------------------------------------------
(* The up-to-date check and the force flag *)

\* C2: when the target version equals the current version and force is
\* false, the run can only end UpToDate with exit code 2; it issues no
\* request to the artifact endpoint, shows no prompt, reads no input and
\* leaves the install target as it was.
C2_UpToDateStops ==
    (target_version = current_version /\ ~force) =>
        /\ pc \in { "VersionCheck", "UpToDate" }
        /\ pc = "UpToDate" => exit_code = 2
        /\ ~ArtifactRequested
        /\ ~Printed(stdout, Prompt.text)
        /\ stdin_reads = 0
        /\ install_file = old_file

C2_Witness ==
    /\ pc = "UpToDate"
    /\ exit_code = 2
    /\ version = None
    /\ Issued("release_index")

\* C3 as stated: with force set, the run never ends UpToDate and every run
\* goes on to the download stage.
C3_ForceAlwaysDownloads ==
    force =>
        /\ exit_code # 2
        /\ pc # "UpToDate"
        /\ pc \in Terminal => DownloadStageReached

\* C3, amended: with force set, the run never ends UpToDate (never returns
\* 2), also when the target equals the current version; once the version is
\* resolved it passes the check as Available, and it goes on to the download
\* stage, without a prompt, unless the install path cannot be resolved.
C3_ForceNeverUpToDate ==
    force =>
        /\ exit_code # 2
        /\ pc # "UpToDate"
        /\ stdin_reads = 0
        /\ (target_version # None /\ pc # "VersionCheck")
              => Printed(stdout, "Update available: v{} (current: v{})")
        /\ pc \in Terminal =>
              \/ DownloadStageReached
              \/ pc = "Failed" /\ failed_at \in { "ResolveVersion", "Available" }

C3_Witness ==
    /\ force
    /\ target_version = current_version
    /\ pc = "DownloadChecksum"
    /\ Issued("archive")

----------------------------------------------------------------------------
(* The checksum *)

SuccessStatus(status) == status \in 200..299

LaterStages ==
    { "CreateTempDir", "Extracting", "FindBinary", "MakeExecutable", "Installing" }

\* The error perform_update returned, as run_update printed it.
UpdateError == stderr[Len(stderr)].args[1]

\* C4: when the checksum companion came with a success status and the hex
\* SHA-256 digest of the archive bytes differs from the expected digest, the
\* update fails with an error holding both digests, the run exits 1, nothing
\* is extracted and the install target is not written.
C4_MismatchFails ==
    ( /\ SuccessStatus(checksum_status)
      /\ expected_checksum # None
      /\ FirstToken(expected_checksum) # None
      /\ FirstToken(expected_checksum) # hex_encode(Sha256(bytes)) ) =>
        /\ pc = "Failed"
        /\ failed_at = "Verifying"
        /\ exit_code = 1
        /\ stderr[Len(stderr)].text = "Update failed: "
        /\ UpdateError.args =
              << FirstToken(expected_checksum), hex_encode(Sha256(bytes)) >>
        /\ ~Printed(stdout, "Installing...")
        /\ ~temp_dir.exists
        /\ install_file = old_file

C4_Witness ==
    /\ pc = "Failed"
    /\ failed_at = "Verifying"
    /\ checksum_status = 200
    /\ FirstToken(expected_checksum) = to_uppercase(hex_encode(Sha256(bytes)))
    /\ FirstToken(expected_checksum) # hex_encode(Sha256(bytes))
    /\ UpdateError.text = "Checksum verification failed!\nExpected: {}\nActual:   {}"

\* C5: when the archive was downloaded and the checksum request came back
\* with a non-success status, no digest is compared, the warning that the
\* checksum is not available is on standard error, and the run goes on to
\* extraction and installation: it does not fail for the missing checksum.
C5_MissingChecksumWarns ==
    ( /\ checksum_status # 0
      /\ ~SuccessStatus(checksum_status)
      /\ pc # "Verifying" ) =>
        /\ Printed(stderr, "Checksum file not available, skipping verification")
        /\ ~Printed(stdout, "Verifying checksum...")
        /\ \/ pc \in LaterStages \cup { "Done" }
           \/ pc = "Failed" /\ failed_at \in LaterStages

C5_Witness ==
    /\ pc = "Done"
    /\ checksum_status = 404
    /\ Printed(stderr, "Checksum file not available, skipping verification")
    /\ install_file # old_file

----------------------------------------------------------------------------
(* The confirmation *)

\* C6: without force, a run that reaches the confirmation reads exactly one
\* line; it goes on to the download iff the line, trimmed and in lower
\* case, is "y" or "yes"; any other response ends the run Cancelled with
\* exit code 0, no artifact request and the install target unchanged.  With
\* force no input is read.
C6_ConfirmDecides ==
    /\ stdin_reads <= 1
    /\ force => stdin_reads = 0
    /\ (~force /\ DownloadStageReached) => stdin_reads = 1
    /\ response # NoResponse =>
          /\ stdin_reads = 1
          /\ IF response.ok /\ to_lowercase(trim(response.line))
                                 \in { <<"y">>, <<"y", "e", "s">> }
             THEN pc = "Downloading"
             ELSE /\ pc = "Cancelled"
                  /\ exit_code = 0
                  /\ ~ArtifactRequested
                  /\ install_file = old_file

----------------------------------------------------------------------------
(* The order of install-path resolution and network I/O *)

\* C7: the install target is resolved, or the failure to resolve it is
\* reported, before any network request of the run, the release-index
\* query included.
C7_InstallPathBeforeNetwork ==
    requests # <<>> =>
        \/ install_path # None
        \/ Printed(stderr, "Failed to determine binary location: ")

----------------------------------------------------------------------------
(* Version normalisation *)

\* C8: normalising a tag twice gives the same as normalising it once.
C8_NormalizeIdempotent ==
    tag_name # None =>
        /\ normalize(normalize(tag_name)) = normalize(tag_name)
        /\ pc = "VersionCheck" => normalize(target_version) = target_version

\* C9: the version get_latest_version returns starts neither with
\* "unvenv-v" nor with "v".
C9_NoPrefixLeft ==
    (pc = "VersionCheck" /\ tag_name # None) =>
        /\ ~StartsWith(target_version, ToolPrefix)
        /\ ~StartsWith(target_version, <<"v">>)

----------------------------------------------------------------------------
(* The platform string *)

ExpectedPlatform ==
    IF <<os, arch>> = <<"macos", "x86_64">> THEN "x86_64-apple-darwin"
    ELSE IF <<os, arch>> = <<"macos", "aarch64">> THEN "aarch64-apple-darwin"
    ELSE IF <<os, arch>> = <<"linux", "x86_64">> THEN "x86_64-unknown-linux-gnu"
    ELSE IF <<os, arch>> = <<"linux", "aarch64">> THEN "aarch64-unknown-linux-gnu"
    ELSE IF <<os, arch>> = <<"windows", "x86_64">> THEN "x86_64-pc-windows-msvc"
    ELSE "unknown"

\* C10: get_platform_string gives the documented triple for the five listed
\* (OS, ARCH) pairs and "unknown" for every other pair; the run never fails
\* for the platform: the archive named after it is requested all the same.
C10_PlatformTable ==
    /\ get_platform_string(os, arch) = ExpectedPlatform
    /\ \A i \in 1..Len(stdout) :
          stdout[i].text = "Downloading {}..." =>
              stdout[i].args[1][2] = ExpectedPlatform
    /\ \A i \in 1..Len(requests) :
          requests[i].endpoint = "archive" =>
              requests[i].url[Len(requests[i].url) - 2] = ExpectedPlatform
    /\ get_platform_string(os, arch) \in
          { "x86_64-apple-darwin", "aarch64-apple-darwin",
            "x86_64-unknown-linux-gnu", "aarch64-unknown-linux-gnu",
            "x86_64-pc-windows-msvc", "unknown" }

C10_Witness ==
    /\ os = "windows"
    /\ arch = "aarch64"
    /\ Issued("archive")
    /\ requests[Len(requests)].url[Len(requests[Len(requests)].url) - 2] = "unknown"

----------------------------------------------------------------------------
(* A refused download *)

\* C11: when the archive GET comes back with a non-success status, the
\* update fails with an error that carries that status, the run returns 1,
\* and no checksum request is issued, no scratch directory is created and
\* the install target is not written.
C11_DownloadRefused ==
    (archive_status # 0 /\ ~SuccessStatus(archive_status)) =>
        /\ pc = "Failed"
        /\ failed_at = "Downloading"
        /\ exit_code = 1
        /\ stderr[Len(stderr)].text = "Update failed: "
        /\ UpdateError.text = "Download failed: HTTP "
        /\ UpdateError.args = <<archive_status>>
        /\ ~Issued("checksum")
        /\ ~Printed(stdout, "Installing...")
        /\ ~temp_dir.exists
        /\ install_file = old_file

C11_Witness ==
    /\ archive_status = 404
    /\ version = current_version
    /\ force
    /\ pc = "Failed"
    /\ UpdateError.args = <<404>>

----------------------------------------------------------------------------
(* A successful installation *)

\* The file named unvenv that the archive body holds.
ArchivedBinary == CHOOSE f \in unpack(bytes).files : f.name = "unvenv"

\* The binary was found in the scratch directory.
BinaryFound ==
    \/ pc \in { "MakeExecutable", "Installing", "Done" }
    \/ pc = "Failed" /\ failed_at \in { "MakeExecutable", "Installing" }

\* On a Unix target the archive was downloaded, the checksum matched, the
\* archive was unpacked, the binary was found and the install path is
\* writable.
C12_Scenario ==
    /\ os # "windows"
    /\ SuccessStatus(archive_status)
    /\ Printed(stdout, "Checksum verified")
    /\ BinaryFound
    /\ ~ArchivedBinary.dir
    /\ target_dir = "writable"

Installed ==
    install_file = [exists |-> TRUE, data |-> ArchivedBinary.data, mode |-> 493]

\* C12 as stated: in that scenario the run returns 0 and the install target
\* holds the extracted binary with mode 0o755, the mode having been set on
\* the extracted file before the copy.
C12_ScenarioInstalls ==
    C12_Scenario =>
        /\ pc = "Installing" => temp_binary.mode = 493
        /\ pc \in Terminal => pc = "Done" /\ exit_code = 0 /\ Installed

\* C12, amended: in that scenario the mode 0o755 is set on the extracted
\* file before the copy, and the run either returns 0 with the install
\* target holding the extracted binary with mode 0o755, or returns 1
\* because setting the mode or the copy failed with an I/O error.
C12_ScenarioInstallsOrIoError ==
    C12_Scenario =>
        /\ pc = "Installing" => temp_binary.mode = 493
        /\ pc = "Done" => exit_code = 0 /\ Installed
        /\ pc \in Terminal =>
              \/ pc = "Done"
              \/ /\ pc = "Failed"
                 /\ exit_code = 1
                 /\ UpdateError.text \in
                       { "metadata or set_permissions error", "io error" }

C12_Witness ==
    /\ C12_Scenario
    /\ pc = "Done"
    /\ old_file = OldBinary
    /\ install_file.data = <<127, 69, 76, 70>>
    /\ install_file.mode = 493

----------------------------------------------------------------------------
(* An install directory that cannot be written *)

\* The update got past the up-to-date check and the confirmation, into an
\* install directory that does not exist or cannot be written.
C13_Scenario ==
    /\ install_dir \in { "missing", "readonly" }
    /\ DownloadStageReached

PathError ==
    /\ UpdateError.text \in
          { "io error",
            "Permission denied. Try running with sudo or use --install-dir to specify a writable location:\n  " }
    /\ UpdateError.args \in { <<"NotFound">>, <<"PermissionDenied">> }

\* The copy refused its source: the entry named unvenv is a directory.
SourceError ==
    /\ ArchivedBinary.dir
    /\ UpdateError = Msg("io error", <<"InvalidInput">>)

\* C13 as stated: such a run ends Failed at the final copy step with a
\* permission or path error and returns 1.
C13_FailsAtCopy ==
    (C13_Scenario /\ pc \in Terminal) =>
        /\ pc = "Failed"
        /\ failed_at = "Installing"
        /\ exit_code = 1
        /\ PathError

\* C13, amended: such a run never ends Done and never returns 0: it ends
\* Failed with exit code 1 and the install target unchanged; if it gets as
\* far as the final copy step, it fails there with a permission or path
\* error (or, when the entry named unvenv is a directory, with the copy's
\* refusal of that source), otherwise it has failed at an earlier stage.
C13_NeverInstalls ==
    C13_Scenario =>
        /\ pc # "Done"
        /\ exit_code \in { NoExit, 1 }
        /\ install_file = old_file
        /\ pc \in Terminal =>
              /\ pc = "Failed"
              /\ exit_code = 1
              /\ failed_at = "Installing" => PathError \/ SourceError
              /\ ~Printed(stdout, "Successfully updated to v")

C13_Witness ==
    /\ install_dir = "missing"
    /\ version = current_version
    /\ force
    /\ pc = "Failed"
    /\ failed_at = "Installing"
    /\ UpdateError.args = <<"NotFound">>

----------------------------------------------------------------------------
(* The scratch directory *)

\* C14: the scratch directory exists from its creation to the return of
\* perform_update and no longer: in every state the run can end in (Done,
\* or Failed at verification, extraction, the lookup of the binary, the
\* permission change or the copy) no scratch directory is left.
C14_ScratchDirRemoved ==
    /\ pc \in Terminal => ~temp_dir.exists /\ temp_dir.files = {}
    /\ pc \in { "Extracting", "FindBinary", "MakeExecutable", "Installing" }
          => temp_dir.exists
    /\ temp_dir.exists => Printed(stdout, "Installing...")

C14_Witness ==
    /\ pc = "Failed"
    /\ failed_at = "FindBinary"
    /\ Printed(stdout, "Installing...")
    /\ UpdateError.text = "Binary not found in archive: "
    /\ ~temp_dir.exists

----------------------------------------------------------------------------
(* The release locator *)

Count(endpoint) ==
    Cardinality({ i \in 1..Len(requests) : requests[i].endpoint = endpoint })

\* C15: an explicit version is the target version as it was given, and the
\* release index is not queried in that run; the release index is queried
\* only when no version was given, and then once.
C15_ExplicitVersionVerbatim ==
    /\ version # None =>
          /\ target_version \in { None, version }
          /\ pc # "ResolveVersion" => target_version = version
          /\ ~Issued("release_index")
          /\ index_response = ""
    /\ Issued("release_index") => version = None /\ Count("release_index") = 1
    /\ (version = None /\ pc # "ResolveVersion") =>
          \/ Count("release_index") = 1
          \/ index_response = "build_err" /\ Count("release_index") = 0

C15_Witness ==
    /\ version = <<"v", "1", ".", "0", ".", "0">>
    /\ target_version = version
    /\ pc = "Done"
    /\ ~Issued("release_index")


\* C16: when no version was given and the release-index query fails
\* (transport error, a body that is not JSON, no string tag_name), the error
\* comes after a single request as one error string, and run_update returns
\* 1 without comparing versions, prompting, requesting an artifact or
\* writing the install target.
C16_IndexFailureStops ==
    index_response \in { "send_err", "json_err", "no_tag" } =>
        /\ version = None
        /\ pc = "Failed"
        /\ failed_at = "ResolveVersion"
        /\ exit_code = 1
        /\ target_version = None
        /\ requests = << IndexRequest >>
        /\ Len(stderr) = 1
        /\ stderr[1].text = "Failed to check for updates: "
        /\ stderr[1].args \in { << <<"error sending request">> >>,
                                << <<"error decoding response body">> >>,
                                << <<"No tag_name in response">> >> }
        /\ stdout = << Msg("Checking for updates...", <<>>) >>
        /\ stdin_reads = 0
        /\ install_path = None
        /\ install_file = old_file

C16_Witness ==
    /\ index_response = "no_tag"
    /\ pc = "Failed"
    /\ stderr[1].args = << <<"No tag_name in response">> >>
    /\ force


----------------------------------------------------------------------------
(* The scan command: scan_for_venvs_in_dir (src/src/main.rs)               *)

\* The paths the model puts under the scanned directory, relative to it,
\* in the order the walk yields them.
ScanPaths ==
    << <<"pyvenv.cfg">>,
       <<".venv", "pyvenv.cfg">>,
       <<".git", "pyvenv.cfg">>,
       <<".venv", "pyvenv.cfg.bak">> >>

PathSet == {ScanPaths[i] : i \in 1..Len(ScanPaths)}

\* What a path is on disk.
EntryKinds == {"absent", "file", "dir", "symlink"}

\* The trees of the model: a path named like a configuration file is of any
\* kind, the other one is a file or absent.
Trees ==
    {t \in [PathSet -> EntryKinds] :
        t[<<".venv", "pyvenv.cfg.bak">>] \in {"absent", "file"}}

\* Repository::discover(workdir): no repository above the directory, a bare
\* one, or one with a working tree.
Repos == {"none", "bare", "worktree"}

\* The scanned directory relative to the working tree of the repository:
\* discover walks upward, so the directory is the root or lies below it.
Prefixes == {<<>>, <<"sub">>}

\* The paths an ignore rule of the repository can match, relative to the
\* root of its working tree.
RootPaths ==
    {pre \o p : pre \in Prefixes,
                p \in {<<"pyvenv.cfg">>, <<".venv", "pyvenv.cfg">>}}

\* file_name() of an entry.
file_name(p) == p[Len(p)]

\* filter_entry(|e| e.file_name() != ".git"): the directory .git is not
\* yielded and not descended into.
under_git(p) == \E i \in 1..Len(p) : p[i] = ".git"

\* The entries the walk yields for a tree.
yielded(t, p) == t[p] # "absent" /\ ~under_git(p)

WalkDir(t) == SelectSeq(ScanPaths, LAMBDA p : yielded(t, p))

\* file_type().is_file() with follow_links(false): a symlink is not a file.
is_file(t, p) == t[p] = "file"

\* repo.status_should_ignore(path): git reads the path as relative to the
\* root of the working tree.
status_should_ignore(ignored, path) == path \in ignored

\* full_path.strip_prefix(workdir): the path relative to the scanned
\* directory, which is how the model names an entry already.
strip_prefix(p) == p

\* The value of is_ignored for an entry, when the query to git succeeds.
is_ignored(p) ==
    IF scan.repo # "none"
    THEN IF scan.repo = "bare"
         THEN FALSE
         ELSE status_should_ignore(scan.ignored, strip_prefix(p))
    ELSE FALSE

\* The update variables while the scan command runs: run_update is not
\* called.
UpdateIdle ==
    /\ version = None
    /\ force = FALSE
    /\ install_dir = "none"
    /\ os = "linux"
    /\ arch = "x86_64"
    /\ exe_dir = "writable"
    /\ pc = "NotCalled"
    /\ exit_code = NoExit
    /\ failed_at = ""
    /\ target_version = None
    /\ index_response = ""
    /\ tag_name = None
    /\ install_path = None
    /\ response = NoResponse
    /\ stdin_reads = 0
    /\ archive_status = 0
    /\ bytes = <<>>
    /\ checksum_status = 0
    /\ expected_checksum = None
    /\ temp_dir = NoTempDir
    /\ install_file = OldBinary
    /\ old_file = OldBinary
    /\ requests = <<>>
    /\ stdout = <<>>
    /\ stderr = <<>>

update_vars ==
    <<version, force, install_dir, os, arch, exe_dir, pc, exit_code,
      failed_at, target_version, index_response, tag_name, install_path,
      response, stdin_reads, archive_status, bytes, checksum_status,
      expected_checksum, temp_dir, install_file, old_file, requests,
      stdout, stderr>>

\* The state at the call of scan_for_venvs_in_dir(workdir).
InitScan ==
    /\ UpdateIdle
    /\ copy = NoCopy
    /\ \E t \in Trees, r \in Repos, pre \in Prefixes,
          ign \in SUBSET RootPaths :
            scan = [pc       |-> "start",
                    tree     |-> t,
                    repo     |-> r,
                    prefix   |-> pre,
                    ignored  |-> ign,
                    todo     |-> <<>>,
                    unignored_venvs |-> <<>>,
                    result   |-> NoExit,
                    err      |-> ""]

\* Lines 166-179: discover the repository and start the walk.
ScanDiscover ==
    /\ scan.pc = "start"
    /\ scan' = [scan EXCEPT !.pc = "walk", !.todo = WalkDir(scan.tree)]
    /\ UNCHANGED <<update_vars, copy>>

\* The function returns Err(e): main prints it and exits with 1.
ScanErr(e) == [scan EXCEPT !.pc = "done", !.err = e, !.todo = <<>>]

\* Lines 180-213: one turn of the loop over the entries of the walk.
ScanEntry ==
    /\ scan.pc = "walk"
    /\ scan.todo # <<>>
    /\ LET p == Head(scan.todo)
           skip == [scan EXCEPT !.todo = Tail(scan.todo)]
           push == [scan EXCEPT !.todo = Tail(scan.todo),
                                !.unignored_venvs = Append(@, p)]
       IN  \/ scan' = ScanErr("Failed to read directory entry")
           \/ /\ file_name(p) = "pyvenv.cfg" /\ is_file(scan.tree, p)
              /\ \/ /\ scan.repo = "worktree"
                    /\ scan' = ScanErr("Failed to check Git ignore status")
                 \/ /\ is_ignored(p)
                    /\ scan' = skip
                 \/ /\ ~is_ignored(p)
                    /\ \/ scan' = push
                       \/ scan' = ScanErr("Failed to read")
           \/ /\ ~(file_name(p) = "pyvenv.cfg" /\ is_file(scan.tree, p))
              /\ scan' = skip
    /\ UNCHANGED <<update_vars, copy>>

\* Lines 215-223: no entry is left; report and return Ok(0) or Ok(2).
ScanReport ==
    /\ scan.pc = "walk"
    /\ scan.todo = <<>>
    /\ scan' = [scan EXCEPT !.pc = "done",
                            !.result = IF scan.unignored_venvs = <<>>
                                       THEN 0 ELSE 2]
    /\ UNCHANGED <<update_vars, copy>>

NextScan ==
    \/ ScanDiscover
    \/ ScanEntry
    \/ ScanReport

SpecScan == InitScan /\ [][NextScan]_vars

\* Git ignores the entry: the repository has a working tree and a rule
\* matches the path of the entry relative to the root of that tree.
GitIgnores(p) ==
    /\ scan.repo = "worktree"
    /\ (scan.prefix \o p) \in scan.ignored

\* A regular file named pyvenv.cfg, outside .git, that Git does not ignore.
Violation(p) ==
    /\ scan.tree[p] = "file"
    /\ file_name(p) = "pyvenv.cfg"
    /\ ~under_git(p)
    /\ ~GitIgnores(p)

\* C17: when the scan returns an exit code, the code is 2 if and only if
\* there is a regular file named pyvenv.cfg that is outside any .git
\* directory and is not ignored by Git, and 0 otherwise.
C17_ScanViolations ==
    (scan.pc = "done" /\ scan.err = "") =>
        /\ scan.result \in {0, 2}
        /\ scan.result = 2 <=> \E p \in PathSet : Violation(p)


----------------------------------------------------------------------------
(* Short-circuit on the first failure *)

\* The stages of perform_update.
PerformStages ==
    { "Downloading", "DownloadChecksum", "Verifying" } \cup LaterStages

\* What holds in every state of a run: no request is repeated, and a failed
\* stage has left no trace of a later one.
NoLaterStage ==
    /\ Count("release_index") <= 1
    /\ Count("archive") <= 1
    /\ Count("checksum") <= 1
    /\ Printed(stderr, "Update failed: ") => failed_at \in PerformStages
    /\ failed_at \in PerformStages =>
          /\ pc = "Failed"
          /\ exit_code = 1
          /\ ~temp_dir.exists
          /\ ~Printed(stdout, "Successfully updated to v")
    /\ failed_at = "Downloading" =>
          /\ ~Issued("checksum")
          /\ checksum_status = 0
    /\ failed_at \in { "Downloading", "DownloadChecksum" } =>
          /\ ~Printed(stdout, "Verifying checksum...")
          /\ ~Printed(stderr, Warning.text)
    /\ failed_at \in { "Downloading", "DownloadChecksum", "Verifying" } =>
          ~Printed(stdout, "Installing...")
    /\ failed_at \in PerformStages \ { "Installing" } =>
          install_file = old_file

\* What holds of every step of a run: a run that has ended takes no further
\* step, and the step in which a stage fails does the work of no other
\* stage.
FailingStep ==
    /\ pc \in Terminal => UNCHANGED vars
    /\ (pc \in PerformStages /\ pc' = "Failed") =>
          /\ failed_at' = pc
          /\ requests' # requests => pc \in { "Downloading", "DownloadChecksum" }
          /\ checksum_status' = checksum_status
          /\ Printed(stdout', "Verifying checksum...") /\ ~Printed(stdout, "Verifying checksum...")
                => pc = "Verifying"
          /\ Printed(stdout', "Installing...") /\ ~Printed(stdout, "Installing...")
                => pc = "CreateTempDir"
          /\ temp_dir'.files = {}
          /\ install_file' # install_file => pc = "Installing"

\* C18: the pipeline stops at the first failure and retries nothing: each of
\* the release-index, archive and checksum requests is issued at most once
\* in a run, and once a stage from Downloading onward has failed the run is
\* Failed, no later stage has acted (no checksum request, digest check,
\* extraction, permission change or copy) and no further step is taken.
C18_ShortCircuit == [](NoLaterStage) /\ [][FailingStep]_vars

C18_Witness ==
    /\ pc = "Failed"
    /\ failed_at = "Verifying"
    /\ Count("release_index") = 1
    /\ Count("archive") = 1
    /\ Count("checksum") = 1
    /\ install_file = old_file


----------------------------------------------------------------------------
(* The order of the stages *)

\* The place of each point of the run in the text of run_update and
\* perform_update.
StageRank ==
    [ s \in { "ResolveVersion", "VersionCheck", "Available", "Confirm" }
              \cup PerformStages |->
        CASE s = "ResolveVersion"   -> 0
          [] s = "VersionCheck"     -> 1
          [] s = "Available"        -> 2
          [] s = "Confirm"          -> 3
          [] s = "Downloading"      -> 4
          [] s = "DownloadChecksum" -> 5
          [] s = "Verifying"        -> 6
          [] s = "CreateTempDir"    -> 7
          [] s = "Extracting"       -> 8
          [] s = "FindBinary"       -> 9
          [] s = "MakeExecutable"   -> 10
          [] s = "Installing"       -> 11 ]

\* The lines that announce the stages on standard output, in the order of
\* the stages.
StageLines ==
    << "Update available: v{} (current: v{})",
       Prompt.text,
       "Downloading {}...",
       "Verifying checksum...",
       "Installing...",
       "Successfully updated to v" >>

\* The place of a line among the stage lines, 0 for any other line.
StageLine(text) ==
    IF \E k \in 1..Len(StageLines) : StageLines[k] = text
    THEN CHOOSE k \in 1..Len(StageLines) : StageLines[k] = text
    ELSE 0

\* The checksum stage let the archive through: the digests were equal, or
\* the companion was reported unavailable.
ChecksumPassed ==
    \/ SuccessStatus(checksum_status) /\ Printed(stdout, "Checksum verified")
    \/ ~SuccessStatus(checksum_status) /\ Printed(stderr, Warning.text)

\* The answer read at the prompt is a yes.
Affirmed ==
    /\ response.ok
    /\ to_lowercase(trim(response.line)) \in { <<"y">>, <<"y", "e", "s">> }

\* What holds in every state of a run.
StagesInOrder ==
    /\ \A j \in 1..Len(stdout) : \A i \in 1..(j - 1) :
          (StageLine(stdout[i].text) > 0 /\ StageLine(stdout[j].text) > 0)
             => StageLine(stdout[i].text) < StageLine(stdout[j].text)
    /\ Issued("archive") =>
          /\ target_version # None
          /\ Printed(stdout, "Update available: v{} (current: v{})")
          /\ ~force => Printed(stdout, Prompt.text)
    /\ (pc = "CreateTempDir" /\ SuccessStatus(checksum_status)) =>
          expected_hash(expected_checksum) = actual_hash(bytes)
    /\ install_file # old_file =>
          /\ Issued("archive")
          /\ SuccessStatus(archive_status)
          /\ ChecksumPassed
          /\ unpack(bytes).ok
          /\ \E f \in unpack(bytes).files : f.name = binary_name
          /\ Printed(stdout, "Installing...")

\* What holds of every step of a run.
StageStep ==
    /\ (pc' # pc /\ pc' \notin Terminal) => StageRank[pc'] = StageRank[pc] + 1
    /\ stdin_reads' # stdin_reads => ~force /\ pc = "Confirm"
    /\ Count("archive")' # Count("archive") =>
          /\ pc = "Downloading"
          /\ Printed(stdout, "Update available: v{} (current: v{})")
          /\ force \/ Affirmed
    /\ install_file' # install_file =>
          /\ pc = "Installing"
          /\ SuccessStatus(archive_status)
          /\ ChecksumPassed
          /\ temp_dir.exists
          /\ { f.name : f \in temp_dir.files }
                = { f.name : f \in unpack(bytes).files }
          /\ temp_binary_exists

\* C19: the stages come only in the order VersionCheck, Confirm (when not
\* forced), Downloading, Verifying, Extracting, Installing: the install
\* target is written only after the archive came with a success status, the
\* checksum was verified equal or reported unavailable, the archive was
\* unpacked and the binary found in it, all in the same run; and the archive
\* is requested only after the version check and, when not forced, a yes at
\* the prompt.
C19_StageOrder == [](StagesInOrder) /\ [][StageStep]_vars

C19_Witness ==
    /\ ~force
    /\ pc = "Done"
    /\ install_file # old_file
    /\ Printed(stdout, Prompt.text)
    /\ Printed(stdout, "Checksum verified")


----------------------------------------------------------------------------
(* Windows *)

\* What holds in every state of a run on a Windows target.
WindowsNeverInstalls ==
    os = "windows" =>
        /\ pc \notin { "FindBinary", "MakeExecutable", "Installing", "Done" }
        /\ temp_dir.files = {}
        /\ install_file = old_file
        /\ failed_at = "Extracting" =>
              /\ pc = "Failed"
              /\ exit_code = 1
              /\ stderr[Len(stderr)].text = "Update failed: "
              /\ UpdateError = Msg("Windows update not yet implemented", <<>>)

\* What holds of the step taken at the extraction stage on a Windows target.
WindowsExtractStep ==
    (os = "windows" /\ pc = "Extracting") =>
        /\ pc' = "Failed"
        /\ failed_at' = "Extracting"
        /\ temp_dir' = NoTempDir
        /\ install_file' = install_file

\* C20: on a Windows target every run of perform_update that reaches the
\* extraction stage, whatever the download and the checksum steps gave, ends
\* with the error "Windows update not yet implemented"; the archive is never
\* unpacked and the install target is never written.
C20_WindowsUnsupported == [](WindowsNeverInstalls) /\ [][WindowsExtractStep]_vars

C20_Witness ==
    /\ os = "windows"
    /\ pc = "Failed"
    /\ failed_at = "Extracting"
    /\ Printed(stdout, "Checksum verified")
    /\ UpdateError.text = "Windows update not yet implemented"


----------------------------------------------------------------------------
(* The binary in the scratch directory *)

\* The archive was unpacked into the scratch directory.
Unpacked ==
    \/ pc \in { "FindBinary", "MakeExecutable", "Installing", "Done" }
    \/ pc = "Failed" /\ failed_at \in { "FindBinary", "MakeExecutable", "Installing" }

\* The unpacked archive has no regular file of the expected name at its top
\* level.
NoBinaryFile ==
    ~\E f \in unpack(bytes).files : f.name = binary_name /\ ~f.dir

\* C21: when the archive was unpacked and the scratch directory holds no
\* file of the expected binary name at its top level, perform_update fails
\* at the lookup with an error that names the expected file, and the install
\* target is not written.
C21_MissingBinaryFails ==
    (Unpacked /\ NoBinaryFile) =>
        /\ pc \in { "FindBinary", "Failed" }
        /\ pc = "Failed" =>
              /\ failed_at = "FindBinary"
              /\ exit_code = 1
              /\ UpdateError = Msg("Binary not found in archive: ", <<binary_name>>)
        /\ install_file = old_file


----------------------------------------------------------------------------
(* The error of the final copy *)

PermissionHint ==
    "Permission denied. Try running with sudo or use --install-dir to specify a writable location:\n  "

\* C22: when the final copy fails, the error is the "Permission denied ...
\* sudo / --install-dir" message if and only if the kind of the I/O error is
\* PermissionDenied; an error of any other kind is passed on as its own
\* message; in both cases the run ends Failed with exit code 1.
C22_CopyErrorMapping ==
    failed_at = "Installing" =>
        /\ pc = "Failed"
        /\ exit_code = 1
        /\ stderr[Len(stderr)].text = "Update failed: "
        /\ UpdateError.args \in
              { <<"PermissionDenied">>, <<"NotFound">>, <<"Other">>, <<"InvalidInput">> }
        /\ UpdateError.text = PermissionHint <=> UpdateError.args = <<"PermissionDenied">>
        /\ UpdateError.args # <<"PermissionDenied">> => UpdateError.text = "io error"

C22_Witness ==
    /\ failed_at = "Installing"
    /\ pc = "Failed"
    /\ target_dir = "readonly"
    /\ UpdateError = Msg(PermissionHint, <<"PermissionDenied">>)


----------------------------------------------------------------------------
(* The final copy, with other processes at the same install target        *)

\* The updater processes run against one install target.
Updaters == { 1, 2 }

\* The binaries of two releases.
NewBinaries == { <<127, 69, 76, 70>>, <<127, 69, 76, 71, 2>> }

\* The bytes std::fs::copy moves in one write.
ChunkLen == 1

\* A write of bytes at an offset of the file; a gap before the offset reads
\* as zeros.
RECURSIVE Zeros(_)
Zeros(n) == IF n <= 0 THEN <<>> ELSE <<0>> \o Zeros(n - 1)

WriteAt(file, off, chunk) ==
    LET gap  == Zeros(off - Len(file))
        head == SubSeq(file \o gap, 1, off)
        rest == SubSeq(file, off + Len(chunk) + 1, Len(file))
    IN  head \o chunk \o rest

\* The state when the updaters have all reached line 212, each with its
\* extracted binary, and the install target holds the old binary.
InitCopy ==
    /\ UpdateIdle
    /\ scan = NoScan
    /\ \E src \in [Updaters -> NewBinaries] :
          copy = [pc       |-> "copying",
                  file     |-> OldBinary.data,
                  upd      |-> [u \in Updaters |->
                                  [pc |-> "Installing", src |-> src[u], off |-> 0]],
                  observed |-> [seen |-> FALSE, data |-> <<>>]]

\* The replacement done as a write to a temporary name and a rename over
\* the install target: the target changes in one step.
CopyOpen_rename(u) ==
    /\ copy.pc = "copying"
    /\ copy.upd[u].pc = "Installing"
    /\ copy' = [copy EXCEPT !.file = copy.upd[u].src,
                            !.upd[u].off = Len(copy.upd[u].src),
                            !.upd[u].pc = "Done"]
    /\ UNCHANGED <<update_vars, scan>>

\* std::fs::copy opens the install target for writing and truncates it; no
\* lock is taken and no temporary name is used.
CopyOpen(u) ==
    /\ copy.pc = "copying"
    /\ copy.upd[u].pc = "Installing"
    /\ copy' = [copy EXCEPT !.file = <<>>,
                            !.upd[u].pc = "Writing"]
    /\ UNCHANGED <<update_vars, scan>>

\* std::fs::copy writes the next chunk of its source at its own offset.
CopyWrite(u) ==
    /\ copy.pc = "copying"
    /\ copy.upd[u].pc = "Writing"
    /\ copy.upd[u].off < Len(copy.upd[u].src)
    /\ LET off   == copy.upd[u].off
           n     == IF off + ChunkLen <= Len(copy.upd[u].src)
                    THEN ChunkLen ELSE Len(copy.upd[u].src) - off
           chunk == SubSeq(copy.upd[u].src, off + 1, off + n)
       IN  copy' = [copy EXCEPT !.file = WriteAt(copy.file, off, chunk),
                                !.upd[u].off = off + n]
    /\ UNCHANGED <<update_vars, scan>>

\* std::fs::copy returns Ok: the source has been written to its end.
CopyDone(u) ==
    /\ copy.pc = "copying"
    /\ copy.upd[u].pc = "Writing"
    /\ copy.upd[u].off = Len(copy.upd[u].src)
    /\ copy' = [copy EXCEPT !.upd[u].pc = "Done"]
    /\ UNCHANGED <<update_vars, scan>>

\* std::fs::copy returns Err between two writes; nothing is rolled back.
CopyFail(u) ==
    /\ copy.pc = "copying"
    /\ copy.upd[u].pc = "Writing"
    /\ copy.upd[u].off < Len(copy.upd[u].src)
    /\ copy' = [copy EXCEPT !.upd[u].pc = "Failed"]
    /\ UNCHANGED <<update_vars, scan>>

\* Another process starts the installed binary: it reads the install target
\* as it is.
Observe ==
    /\ copy.pc = "copying"
    /\ ~copy.observed.seen
    /\ copy' = [copy EXCEPT !.observed = [seen |-> TRUE, data |-> copy.file]]
    /\ UNCHANGED <<update_vars, scan>>

NextCopy ==
    \/ \E u \in Updaters : CopyOpen(u)
    \/ \E u \in Updaters : CopyWrite(u)
    \/ \E u \in Updaters : CopyDone(u)
    \/ \E u \in Updaters : CopyFail(u)
    \/ Observe

SpecCopy == InitCopy /\ [][NextCopy]_vars


\* The contents that are a whole binary: the old one or a new one.
Complete == { OldBinary.data } \cup NewBinaries

Torn(content) == content \notin Complete

\* Nothing keeps other processes away from the install target while an
\* updater writes it: a reader can read it and another updater can open it.
NoExclusion ==
    \A u \in Updaters :
        copy.upd[u].pc = "Writing" =>
            /\ ~copy.observed.seen => ENABLED Observe
            /\ \A v \in Updaters \ { u } :
                  copy.upd[v].pc = "Installing" => ENABLED CopyOpen(v)

\* No step takes the install target from one whole binary to another: the
\* way from the old binary to a new one leads through partial contents.
NoAtomicStep ==
    (copy.file' # copy.file /\ ~Torn(copy.file)) => Torn(copy.file')

\* C23: the install step is a copy that is not atomic and takes no lock:
\* the target never passes from one whole binary to another in one step,
\* and while one updater writes it a reader can read it and a second
\* updater can open it, so that the target can hold, and a reader can see,
\* content that is neither the whole old binary nor a whole new one.
C23_CopyNotAtomic == [](NoExclusion) /\ [][NoAtomicStep]_vars

\* Both updaters returned Ok, the target holds a mix of their binaries, and
\* a reader saw partial content.
C23_Witness ==
    /\ \A u \in Updaters : copy.upd[u].pc = "Done"
    /\ Torn(copy.file)
    /\ copy.observed.seen
    /\ Torn(copy.observed.data)


----------------------------------------------------------------------------
(* The comparison of versions *)

\* The version check has been made.
Compared == pc \notin { "ResolveVersion", "VersionCheck" }

\* C24: the up-to-date decision is equality of strings between the target
\* and the current version, with no ordering and no normalization of an
\* explicit version: for a target that differs from the current version as
\* a string (an older version, or the current one written "v1.0.0"), the
\* run never ends UpToDate and never returns 2, and the target is announced
\* as an available update, whatever the force flag.
C24_StringEquality ==
    (target_version # None /\ target_version # current_version) =>
        /\ pc # "UpToDate"
        /\ exit_code # 2
        /\ ~Printed(stdout, "Already running latest version (v{})")
        /\ Compared =>
              \E i \in 1..Len(stdout) :
                  stdout[i] = Msg("Update available: v{} (current: v{})",
                                  <<target_version, current_version>>)

C24_Witness ==
    /\ version = <<"v">> \o current_version
    /\ ~force
    /\ target_version = version
    /\ pc = "Available"
    /\ Printed(stdout, "Update available: v{} (current: v{})")


----------------------------------------------------------------------------
(* Termination *)

\* The run under the assumption that every blocking call returns: a step
\* that can be taken is taken.
SpecFair == Spec /\ WF_vars(Next)

\* C25: every run of run_update eventually reaches one of the terminal
\* states UpToDate, Cancelled, Done or Failed, given that each blocking call
\* returns.
C25_Terminates == <>(pc \in { "UpToDate", "Cancelled", "Done", "Failed" })


----------------------------------------------------------------------------
(* The checksum request *)

\* C26: only a checksum response with a status that is not a success counts
\* as "checksum unavailable": when the checksum request fails in transport,
\* or its body cannot be read, the run ends Failed with exit code 1, no
\* "unavailable" warning is given and the downloaded archive is not
\* installed.
C26_OnlyStatusDegrades ==
    /\ Printed(stderr, Warning.text) =>
          /\ checksum_status \in Statuses
          /\ ~SuccessStatus(checksum_status)
    /\ failed_at = "DownloadChecksum" =>
          /\ pc = "Failed"
          /\ exit_code = 1
          /\ UpdateError = Msg("error sending request", <<>>)
          /\ checksum_status = 0
          /\ ~Printed(stderr, Warning.text)
          /\ ~Printed(stdout, "Installing...")
          /\ install_file = old_file
    /\ (failed_at = "Verifying"
          /\ UpdateError = Msg("error decoding response body", <<>>)) =>
          /\ pc = "Failed"
          /\ exit_code = 1
          /\ SuccessStatus(checksum_status)
          /\ ~Printed(stderr, Warning.text)
          /\ ~Printed(stdout, "Installing...")
          /\ install_file = old_file

C26_Witness ==
    /\ failed_at = "DownloadChecksum"
    /\ pc = "Failed"
    /\ SuccessStatus(archive_status)
    /\ bytes = GzipMagic \o <<1>>
    /\ Count("checksum") = 1
    /\ install_file = old_file


----------------------------------------------------------------------------
(* The digest comparison *)

\* The checksum text was read and its first token taken.
TokenCompared ==
    /\ expected_checksum # None
    /\ expected_hash(expected_checksum) # None
    /\ \/ pc = "CreateTempDir"
       \/ pc = "Failed" /\ failed_at = "Verifying"

MismatchError ==
    Msg("Checksum verification failed!\nExpected: {}\nActual:   {}",
        <<expected_hash(expected_checksum), hex_encode(Sha256(bytes))>>)

\* C27: the digest comparison is equality of strings, case included, between
\* the lower-case hex SHA-256 of the archive bytes and the first token of
\* the checksum text: the check passes exactly when the two are the same
\* string, whatever follows the first token, and a first token that is the
\* right digest in upper-case hex fails the update with the checksum error
\* that reports both digests.
C27_ExactDigestMatch ==
    TokenCompared =>
        /\ pc = "CreateTempDir"
              <=> FirstToken(expected_checksum) = hex_encode(Sha256(bytes))
        /\ pc = "Failed" =>
              /\ exit_code = 1
              /\ UpdateError = MismatchError
              /\ install_file = old_file

C27_Witness ==
    /\ TokenCompared
    /\ pc = "Failed"
    /\ FirstToken(expected_checksum) # hex_encode(Sha256(bytes))
    /\ FirstToken(expected_checksum) = to_uppercase(hex_encode(Sha256(bytes)))
    /\ UpdateError = MismatchError


----------------------------------------------------------------------------
(* What a run leaves of the install target *)

\* The run has not come to an end of the copy step: it is under way, or has
\* ended UpToDate or Cancelled, or has failed at a stage before the copy.
BeforeCopyEnd ==
    /\ pc # "Done"
    /\ ~(pc = "Failed" /\ failed_at = "Installing")

\* What holds in every state of a run.
TargetKept == BeforeCopyEnd => install_file = old_file

\* What holds of every step of a run: the install target changes only in
\* the copy step, from what it was at the start, and the run ends with that
\* step.
TargetStep ==
    install_file' # install_file =>
        /\ pc = "Installing"
        /\ install_file = old_file
        /\ pc' \in { "Done", "Failed" }

\* C28: a run that ends UpToDate or Cancelled, or Failed at any stage before
\* the final copy, leaves the install target as it was; only the copy step
\* changes it, and a run changes it at most once.
C28_TargetFrame == [](TargetKept) /\ [][TargetStep]_vars

C28_Witness ==
    /\ pc = "Failed"
    /\ failed_at = "MakeExecutable"
    /\ target_dir = "writable"
    /\ old_file = OldBinary
    /\ install_file = old_file


----------------------------------------------------------------------------
(* An empty checksum text *)

\* The checksum text was read and holds no token: it is empty or made of
\* whitespace only.
BlankChecksum ==
    /\ SuccessStatus(checksum_status)
    /\ expected_checksum # None
    /\ \A i \in 1..Len(expected_checksum) : IsWhitespace(expected_checksum[i])

\* C29: a checksum response with a success status and a body that is empty
\* or whitespace only is fatal and not "checksum unavailable": the run fails
\* with "Invalid checksum format", gives no warning, goes no further, and
\* the install target is not written.
C29_BlankChecksumFatal ==
    BlankChecksum =>
        /\ pc = "Failed"
        /\ failed_at = "Verifying"
        /\ exit_code = 1
        /\ UpdateError = Msg("Invalid checksum format", <<>>)
        /\ ~Printed(stderr, Warning.text)
        /\ ~Printed(stdout, "Checksum verified")
        /\ ~Printed(stdout, "Installing...")
        /\ install_file = old_file

C29_Witness ==
    /\ BlankChecksum
    /\ expected_checksum = <<" ", "\n">>
    /\ checksum_status = 200
    /\ pc = "Failed"
    /\ UpdateError.text = "Invalid checksum format"

====
